---- MODULE Spec2Model ----
(***************************************************************************)
(* Model of the Munich public transport integration: the MVG API client    *)
(* (api.py) and the two refresh routines with the snapshot pipeline        *)
(* (sensor.py, async_setup_entry).                                         *)
(*                                                                         *)
(* A Python dict is a function whose DOMAIN is the set of keys present, so *)
(* that dep["k"] (KeyError when absent) and dep.get("k") (None when        *)
(* absent) can be told apart.  An ordered Python dict (grouped_departures) *)
(* is a sequence of [key, deps] entries in insertion order.  A call that   *)
(* may raise yields a result [exc, value]; exc = "none" is a normal return.*)
(***************************************************************************)
EXTENDS Integers, Sequences, FiniteSets, TLC

\* ---- bounds of the model ------------------------------------------------
MaxDeps == 3            \* longest departure list the API serves
MaxCount == 2           \* largest configured departure_count

Lines == {"U3", "U6"}
Destinations == {"Moosach", "Garching"}
TimesMs == {1000, 1500}                  \* epoch milliseconds served by the API

\* Python's None
None == [none |-> TRUE]

\* ---- results of calls that may raise -------------------------------------
Ok(v) == [exc |-> "none", value |-> v]
Raise(e) == [exc |-> e, value |-> <<>>]

\* class hierarchy of api.py:9-16: both derive from MunichTransportAPIError
MunichTransportAPIError == {"NetworkError", "APIError"}

\* every exception the model produces derives from Exception
ExceptionClasses == MunichTransportAPIError \cup {"KeyError", "TypeError", "TimeoutError"}

\* ---- the HTTP collaborator -----------------------------------------------
RawFields == {"label", "destination", "transportType",
              "realtimeDepartureTime", "plannedDepartureTime"}

WellFormedRaw ==
    { [label |-> l, destination |-> d, transportType |-> "UBAHN",
       realtimeDepartureTime |-> t, plannedDepartureTime |-> 1000] :
         l \in Lines, d \in Destinations, t \in TimesMs }

Without(r, ks) == [k \in (DOMAIN r) \ ks |-> r[k]]

BaseRaw == [label |-> "U3", destination |-> "Moosach", transportType |-> "UBAHN",
            realtimeDepartureTime |-> 1500, plannedDepartureTime |-> 1000]

\* records of the parsed body that lack one of the fields
MalformedRaw ==
    { Without(BaseRaw, {k}) : k \in RawFields }
    \cup { Without(BaseRaw, {"realtimeDepartureTime", "plannedDepartureTime"}) }

RawRecords == WellFormedRaw \cup MalformedRaw

RECURSIVE SeqsUpTo(_, _)
SeqsUpTo(S, n) ==
    IF n = 0 THEN { <<>> }
    ELSE LET shorter == SeqsUpTo(S, n - 1)
         IN shorter \cup { Append(s, x) : s \in { t \in shorter : Len(t) = n - 1 }, x \in S }

\* what the server does with one GET: the transport fails, the request times
\* out, or a response arrives with a status and a body that parses or not
HttpFailures ==
    { [kind |-> "client_error", status |-> 0, parseable |-> FALSE, json |-> <<>>],
      [kind |-> "timeout", status |-> 0, parseable |-> FALSE, json |-> <<>>],
      [kind |-> "response", status |-> 500, parseable |-> TRUE, json |-> <<>>],
      [kind |-> "response", status |-> 200, parseable |-> FALSE, json |-> <<>>] }

HttpOk(j) == [kind |-> "response", status |-> 200, parseable |-> TRUE, json |-> j]

\* api.py:22-37
MakeRequest(resp) ==
    CASE resp.kind = "client_error" -> Raise("NetworkError")    \* aiohttp.ClientError
      [] resp.kind = "timeout"      -> Raise("TimeoutError")    \* no handler matches
      [] resp.kind = "response"     ->
            IF resp.status # 200 THEN Raise("APIError")
            ELSE IF ~resp.parseable THEN Raise("APIError")      \* ValueError
            ELSE Ok(resp.json)

\* api.py:111-121
get_icon(transport_type) ==
    CASE transport_type = "UBAHN" -> "mdi:subway-variant"
      [] transport_type = "TRAM" -> "mdi:tram"
      [] transport_type = "SBAHN" -> "mdi:train"
      [] transport_type = "BUS" -> "mdi:bus"
      [] transport_type = "REGIONAL_BUS" -> "mdi:bus-clock"
      [] transport_type = "RUFTAXI" -> "mdi:taxi"
      [] OTHER -> "mdi:train-car"

\* Python's true division of an int by 1000: the float is kept exactly as
\* <<whole seconds, remaining milliseconds>>
DivBy1000(ms) == << ms \div 1000, ms % 1000 >>

TimeLess(a, b) == a[1] < b[1] \/ (a[1] = b[1] /\ a[2] < b[2])

\* dep.get(k, None) is None
GetIsNone(dep, k) == k \notin DOMAIN dep

\* api.py:66-79, the dict display evaluated for one raw record; its items are
\* evaluated in order, so the first failing item decides the exception.
\* pos is the identity of the dict object built for the record at index pos.
NormalizeOne(dep, pos) ==
    IF "label" \notin DOMAIN dep THEN Raise("KeyError")
    ELSE IF "destination" \notin DOMAIN dep THEN Raise("KeyError")
    ELSE IF GetIsNone(dep, "realtimeDepartureTime") THEN Raise("TypeError")
    ELSE IF GetIsNone(dep, "plannedDepartureTime") THEN Raise("TypeError")
    ELSE IF "transportType" \notin DOMAIN dep THEN Raise("KeyError")
    ELSE Ok([line |-> dep["label"],
             destination |-> dep["destination"],
             realtime_departure |-> DivBy1000(dep["realtimeDepartureTime"]),
             planned_departure |-> DivBy1000(dep["plannedDepartureTime"]),
             type |-> dep["transportType"],
             icon |-> get_icon(dep["transportType"]),
             pos |-> pos])

\* api.py:65-81, the list comprehension: the first record that raises aborts it
RECURSIVE NormalizeFrom(_, _, _)
NormalizeFrom(data, i, acc) ==
    IF i > Len(data) THEN Ok(acc)
    ELSE LET r == NormalizeOne(data[i], i)
         IN IF r.exc # "none" THEN r
            ELSE NormalizeFrom(data, i + 1, Append(acc, r.value))

\* api.py:60-88
fetch_departures(resp) ==
    LET data == MakeRequest(resp)
    IN IF data.exc # "none" THEN data        \* logged and re-raised, or propagated
       ELSE NormalizeFrom(data.value, 1, <<>>)

\* ---- the snapshot pipeline, sensor.py:71-97 ------------------------------
\* mutant: an empty selection rejects everything
PassesFilterEmptyExcludes(dep, sel_lines, sel_directions) ==
    dep.line \in sel_lines /\ dep.destination \in sel_directions

\* sensor.py:74-75
PassesFilter(dep, sel_lines, sel_directions) ==
    /\ (sel_lines = {} \/ dep.line \in sel_lines)
    /\ (sel_directions = {} \/ dep.destination \in sel_directions)

KeyOf(dep) == << dep.line, dep.destination >>

Keys(grouped) == { grouped[i].key : i \in DOMAIN grouped }

\* grouped[key], for a key of the dict
Get(grouped, key) ==
    LET i == CHOOSE j \in DOMAIN grouped : grouped[j].key = key
    IN grouped[i].deps

\* sensor.py:76-79
PutDeparture(grouped, dep) ==
    IF KeyOf(dep) \in Keys(grouped)
    THEN [i \in DOMAIN grouped |->
            IF grouped[i].key = KeyOf(dep)
            THEN [key |-> grouped[i].key, deps |-> Append(grouped[i].deps, dep)]
            ELSE grouped[i]]
    ELSE Append(grouped, [key |-> KeyOf(dep), deps |-> <<dep>>])

\* sensor.py:72-79
RECURSIVE GroupFrom(_, _, _, _, _)
GroupFrom(departures, i, sel_lines, sel_directions, grouped) ==
    IF i > Len(departures) THEN grouped
    ELSE GroupFrom(departures, i + 1, sel_lines, sel_directions,
                   IF PassesFilter(departures[i], sel_lines, sel_directions)
                   THEN PutDeparture(grouped, departures[i])
                   ELSE grouped)

\* mutant: x goes before the elements that have its key
RECURSIVE InsertBeforeEqual(_, _)
InsertBeforeEqual(s, x) ==
    IF s = <<>> THEN <<x>>
    ELSE IF ~TimeLess(Head(s).realtime_departure, x.realtime_departure)
         THEN <<x>> \o s
         ELSE <<Head(s)>> \o InsertBeforeEqual(Tail(s), x)

\* one step of a stable sort: x goes behind every element whose key is not
\* greater than its own
RECURSIVE InsertByRealtime(_, _)
InsertByRealtime(s, x) ==
    IF s = <<>> THEN <<x>>
    ELSE IF TimeLess(x.realtime_departure, Head(s).realtime_departure)
         THEN <<x>> \o s
         ELSE <<Head(s)>> \o InsertByRealtime(Tail(s), x)

\* sorted(s, key=lambda x: x['realtime_departure']) and list.sort(key=...):
\* ascending and stable
RECURSIVE SortFrom(_, _, _)
SortFrom(s, i, acc) ==
    IF i > Len(s) THEN acc ELSE SortFrom(s, i + 1, InsertByRealtime(acc, s[i]))

SortByRealtime(s) == SortFrom(s, 1, <<>>)

Min(a, b) == IF a < b THEN a ELSE b
Max(a, b) == IF a > b THEN a ELSE b

\* mutant: the slice is forgotten
SliceToNoLimit(s, n) == s

\* the slice s[:n]
SliceTo(s, n) ==
    IF n >= 0 THEN SubSeq(s, 1, Min(n, Len(s)))
    ELSE SubSeq(s, 1, Max(Len(s) + n, 0))

\* sensor.py:82-83
SortAndLimit(grouped, count) ==
    [i \in DOMAIN grouped |->
        [key |-> grouped[i].key,
         deps |-> SliceTo(SortByRealtime(grouped[i].deps), count)]]

\* mutant: the groups are taken last key first
RECURSIVE FlattenReversed(_, _)
FlattenReversed(grouped, i) ==
    IF i > Len(grouped) THEN <<>> ELSE FlattenReversed(grouped, i + 1) \o grouped[i].deps

\* sensor.py:86-88, the groups in the dict's insertion order
RECURSIVE Flatten(_, _)
Flatten(grouped, i) ==
    IF i > Len(grouped) THEN <<>> ELSE grouped[i].deps \o Flatten(grouped, i + 1)

\* mutant: the flat list is not sorted
AllFilteredUnsorted(grouped) == Flatten(grouped, 1)

\* sensor.py:86-89
AllFiltered(grouped) == SortByRealtime(Flatten(grouped, 1))

\* mutant: the last element is taken
NextOfLast(all) == IF all # <<>> THEN all[Len(all)] ELSE None

\* sensor.py:96
NextOf(all) == IF all # <<>> THEN all[1] ELSE None

\* mutant: the flat list is built from the groups before they are limited
BuildSnapshotFlatBeforeLimit(departures, sel_lines, sel_directions, count) ==
    LET unlimited == GroupFrom(departures, 1, sel_lines, sel_directions, <<>>)
        all == SortByRealtime(Flatten(unlimited, 1))
    IN [all |-> all, grouped |-> SortAndLimit(unlimited, count),
        next |-> IF all # <<>> THEN all[1] ELSE None]

\* sensor.py:71-97
BuildSnapshot(departures, sel_lines, sel_directions, count) ==
    LET grouped == SortAndLimit(GroupFrom(departures, 1, sel_lines, sel_directions, <<>>),
                                count)
        all == AllFiltered(grouped)
    IN [all |-> all, grouped |-> grouped, next |-> NextOf(all)]

\* sensor.py:100-104
EmptySnapshot == [all |-> <<>>, grouped |-> <<>>, next |-> None]

\* mutant: only the API client's own errors are caught
CaughtOnlyApiErrors(exc) == exc \in MunichTransportAPIError

\* sensor.py:98, except Exception
CaughtAtRefresh(exc) == exc \in ExceptionClasses

\* sensor.py:64-104
async_update_departures(resp, sel_lines, sel_directions, count) ==
    LET departures == fetch_departures(resp)
    IN IF departures.exc = "none"
       THEN Ok(BuildSnapshot(departures.value, sel_lines, sel_directions, count))
       ELSE IF CaughtAtRefresh(departures.exc) THEN Ok(EmptySnapshot)
       ELSE departures

\* ---- service messages, api.py:123-144 ------------------------------------
MaxMsgs == 1            \* longest message list the API serves

BaseRawMessage ==
    [title |-> "Baustelle", description |-> "Umleitung", type |-> "INCIDENT",
     validFrom |-> 1000, validTo |-> 2000, lines |-> << [label |-> "U3"] >>]

RawMessages ==
    { BaseRawMessage,
      Without(BaseRawMessage, {"validFrom", "validTo", "lines"}),
      Without(BaseRawMessage, {"title"}) }

MessageResponses ==
    HttpFailures \cup { HttpOk(j) : j \in SeqsUpTo(RawMessages, MaxMsgs) }

\* datetime.fromtimestamp(ms / 1000).isoformat(), kept as the instant it denotes
IsoFormat(ms) == [iso |-> DivBy1000(ms)]

\* msg.get(k) is falsy when the key is absent and when it is 0
GetIsTruthy(msg, k) == k \in DOMAIN msg /\ msg[k] # 0

\* api.py:129-136
NormalizeMessage(msg) ==
    IF {"title", "description", "type"} \subseteq DOMAIN msg
    THEN Ok([title |-> msg["title"],
             description |-> msg["description"],
             type |-> msg["type"],
             valid_from |-> IF GetIsTruthy(msg, "validFrom")
                            THEN IsoFormat(msg["validFrom"]) ELSE None,
             valid_to |-> IF GetIsTruthy(msg, "validTo")
                          THEN IsoFormat(msg["validTo"]) ELSE None,
             lines |-> IF "lines" \in DOMAIN msg
                       THEN [i \in DOMAIN msg["lines"] |-> msg["lines"][i]["label"]]
                       ELSE <<>>])
    ELSE Raise("KeyError")

\* api.py:128-138
RECURSIVE NormalizeMessagesFrom(_, _, _)
NormalizeMessagesFrom(data, i, acc) ==
    IF i > Len(data) THEN Ok(acc)
    ELSE LET r == NormalizeMessage(data[i])
         IN IF r.exc # "none" THEN r
            ELSE NormalizeMessagesFrom(data, i + 1, Append(acc, r.value))

\* api.py:123-144
fetch_messages(resp) ==
    LET data == MakeRequest(resp)
    IN IF data.exc # "none" THEN data
       ELSE NormalizeMessagesFrom(data.value, 1, <<>>)

\* sensor.py:113, except Exception
CaughtAtMessages(exc) == exc \in ExceptionClasses

\* sensor.py:106-115
async_update_messages(resp) ==
    LET messages == fetch_messages(resp)
    IN IF messages.exc = "none" THEN Ok([messages |-> messages.value])
       ELSE IF CaughtAtMessages(messages.exc) THEN Ok([messages |-> <<>>])
       ELSE messages

\* ---- state ----------------------------------------------------------------
VARIABLES
    selected_lines,       \* sensor.py:47, bound once in async_setup_entry
    selected_directions,  \* sensor.py:48
    departure_count,      \* sensor.py:51
    api_departures,       \* what the MVG server answers to a departures GET
    dep_pc,               \* the departures refresh: idle, or awaiting the fetch
    departures,           \* sensor.py:68, what fetch_departures gave the latest refresh
    departure_data,       \* departure_coordinator.data
    api_messages,         \* what the MVG server answers to a messages GET
    msg_pc,               \* the messages refresh: idle, or awaiting the fetch
    messages,             \* sensor.py:110, what fetch_messages gave the latest refresh
    message_data,         \* message_coordinator.data
    scheduler_exc,        \* exception a refresh routine raised into its caller
    msg_now,              \* sensor.py:414, datetime.now() of the latest attribute read, <<>> before any
    msg_filtered,         \* sensor.py:408, filtered_messages of the latest attribute read
    msg_state,            \* what MessagesSensor last reported: native_value and attributes
    observed,             \* coordinator.data as the departure sensors last read it
    entry_lines,          \* the config entry's current "lines"
    entry_directions,     \* the config entry's current "directions"
    setup_pc,             \* async_setup_entry: awaiting the first refreshes, or done
    entities,             \* sensor.py:139, the closure's list of entities
    registry,             \* unique ids held by the entity registry
    listeners_pending,    \* update listeners still to run for the latest update
    updates,              \* number of config entry updates so far
    dep_started_before    \* the refresh in flight began before the latest update

vars == << selected_lines, selected_directions, departure_count,
           api_departures, dep_pc, departures, departure_data,
           api_messages, msg_pc, messages, message_data, scheduler_exc,
           msg_now, msg_filtered, msg_state, observed,
           entry_lines, entry_directions, setup_pc, entities, registry,
           listeners_pending, updates, dep_started_before >>

sensor_vars == << msg_now, msg_filtered, msg_state, observed >>
entry_vars == << entry_lines, entry_directions, updates >>
platform_vars == << setup_pc, entities, registry, listeners_pending >>

config_vars == << selected_lines, selected_directions, departure_count >>
dep_vars == << dep_pc, departures, departure_data >>
msg_vars == << msg_pc, messages, message_data >>
api_vars == << api_departures, api_messages >>

\* selections a config entry can hold
LineSelections == { {}, {"U3"}, {"U6"}, Lines }
DirectionSelections == { {}, {"Moosach"}, Destinations }

\* bodies the server can serve for departures: every list of well-formed
\* records, and lists with a record that lacks a field
WellFormedResponses == { HttpOk(j) : j \in SeqsUpTo(WellFormedRaw, MaxDeps) }
AnyRecordResponses == { HttpOk(j) : j \in SeqsUpTo(RawRecords, MaxDeps) }
DepartureResponses ==
    HttpFailures \cup WellFormedResponses \cup { HttpOk(<<m>>) : m \in MalformedRaw }

\* sensor.py:45-62 and 117-131: the closure variables are bound and the two
\* coordinators exist, neither has refreshed yet
Setup ==
    /\ selected_lines \in LineSelections
    /\ selected_directions \in DirectionSelections
    /\ departure_count \in 1..MaxCount
    /\ dep_pc = "idle"
    /\ departures = None
    /\ departure_data = None
    /\ msg_pc = "idle"
    /\ messages = None
    /\ message_data = None
    /\ scheduler_exc = "none"
    /\ msg_now = <<>>
    /\ msg_filtered = <<>>
    /\ msg_state = None
    /\ observed = None
    /\ entry_lines = selected_lines
    /\ entry_directions = selected_directions
    /\ setup_pc = "refreshing"
    /\ entities = <<>>
    /\ registry = {}
    /\ listeners_pending = <<>>
    /\ updates = 0
    /\ dep_started_before = FALSE

Init ==
    /\ Setup
    /\ api_departures \in DepartureResponses
    /\ api_messages = HttpOk(<<>>)

\* mutant: a coordinator whose refresh failed is not scheduled again
DepRefreshStartUnlessFailed ==
    /\ dep_pc = "idle"
    /\ IF departures = None THEN TRUE ELSE departures.exc = "none"
    /\ dep_pc' = "fetching"
    /\ dep_started_before' = FALSE
    /\ UNCHANGED << departures, departure_data, scheduler_exc >>
    /\ UNCHANGED << config_vars, msg_vars, api_vars >>
    /\ UNCHANGED << sensor_vars, entry_vars, platform_vars >>

\* the scheduler invokes async_update_departures, which runs up to the await
\* of sensor.py:68
DepRefreshStart ==
    /\ dep_pc = "idle"
    /\ dep_pc' = "fetching"
    /\ dep_started_before' = FALSE
    /\ UNCHANGED << departures, departure_data, scheduler_exc >>
    /\ UNCHANGED << config_vars, msg_vars, api_vars >>
    /\ UNCHANGED << sensor_vars, entry_vars, platform_vars >>

\* mutant: the refresh publishes its result field by field, and the grouping
\* of the snapshot before is still in place when it is done
DepRefreshFinishPartial ==
    /\ dep_pc = "fetching"
    /\ LET result == async_update_departures(api_departures, selected_lines,
                                             selected_directions, departure_count)
       IN /\ departures' = fetch_departures(api_departures)
          /\ departure_data' =
                IF departure_data = None THEN result.value
                ELSE [result.value EXCEPT !.grouped = departure_data.grouped]
          /\ UNCHANGED scheduler_exc
    /\ dep_pc' = "idle"
    /\ UNCHANGED dep_started_before
    /\ UNCHANGED << config_vars, msg_vars, api_vars >>
    /\ UNCHANGED << sensor_vars, entry_vars, platform_vars >>

\* the fetch returns or raises; sensor.py:69-104 run without suspending and
\* the coordinator publishes the returned snapshot
DepRefreshFinish ==
    /\ dep_pc = "fetching"
    /\ LET result == async_update_departures(api_departures, selected_lines,
                                             selected_directions, departure_count)
       IN /\ departures' = fetch_departures(api_departures)
          /\ IF result.exc = "none"
             THEN /\ departure_data' = result.value
                  /\ UNCHANGED scheduler_exc
             ELSE /\ scheduler_exc' = result.exc
                  /\ UNCHANGED departure_data
    /\ dep_pc' = "idle"
    /\ UNCHANGED dep_started_before
    /\ UNCHANGED << config_vars, msg_vars, api_vars >>
    /\ UNCHANGED << sensor_vars, entry_vars, platform_vars >>

\* sensor.py:106-110 up to the await
MsgRefreshStart ==
    /\ msg_pc = "idle"
    /\ msg_pc' = "fetching"
    /\ UNCHANGED << messages, message_data, scheduler_exc >>
    /\ UNCHANGED << config_vars, dep_vars, api_vars >>
    /\ UNCHANGED << sensor_vars, entry_vars, platform_vars, dep_started_before >>

\* mutant: the two coordinators share one data slot for failures, so a
\* failed messages fetch also empties the departures
MsgRefreshFinishShared ==
    /\ msg_pc = "fetching"
    /\ LET result == async_update_messages(api_messages)
       IN /\ messages' = fetch_messages(api_messages)
          /\ message_data' = result.value
          /\ departure_data' =
                IF fetch_messages(api_messages).exc = "none" THEN departure_data
                ELSE EmptySnapshot
          /\ UNCHANGED scheduler_exc
    /\ msg_pc' = "idle"
    /\ UNCHANGED << config_vars, dep_pc, departures, api_vars >>
    /\ UNCHANGED << sensor_vars, entry_vars, platform_vars, dep_started_before >>

\* sensor.py:110-115
MsgRefreshFinish ==
    /\ msg_pc = "fetching"
    /\ LET result == async_update_messages(api_messages)
       IN /\ messages' = fetch_messages(api_messages)
          /\ IF result.exc = "none"
             THEN /\ message_data' = result.value
                  /\ UNCHANGED scheduler_exc
             ELSE /\ scheduler_exc' = result.exc
                  /\ UNCHANGED message_data
    /\ msg_pc' = "idle"
    /\ UNCHANGED << config_vars, dep_vars, api_vars >>
    /\ UNCHANGED << sensor_vars, entry_vars, platform_vars, dep_started_before >>

\* the departures refresh against whatever the server holds
Next ==
    \/ DepRefreshStart
    \/ DepRefreshFinish

Spec == Init /\ [][Next]_vars

\* the normalizer over bodies whose records may lack any field
InitFetch ==
    /\ Setup
    /\ api_departures \in AnyRecordResponses
    /\ api_messages = HttpOk(<<>>)

SpecFetch == InitFetch /\ [][Next]_vars

\* ---- both refresh routines under the scheduler ---------------------------
SchedulerRaw ==
    { BaseRaw, Without(BaseRaw, {"label"}), Without(BaseRaw, {"realtimeDepartureTime"}) }

SchedulerDepartureResponses ==
    HttpFailures \cup { HttpOk(j) : j \in SeqsUpTo(SchedulerRaw, 1) }

\* the server's departures change between two fetches
ApiDeparturesChange(resp) ==
    /\ api_departures' = resp
    /\ api_departures # resp
    /\ UNCHANGED << config_vars, dep_vars, msg_vars, api_messages, scheduler_exc >>
    /\ UNCHANGED << sensor_vars, entry_vars, platform_vars, dep_started_before >>

\* the server's messages change between two fetches
ApiMessagesChange(resp) ==
    /\ api_messages' = resp
    /\ api_messages # resp
    /\ UNCHANGED << config_vars, dep_vars, msg_vars, api_departures, scheduler_exc >>
    /\ UNCHANGED << sensor_vars, entry_vars, platform_vars, dep_started_before >>

InitRefresh ==
    /\ Setup
    /\ selected_directions = {}
    /\ departure_count = 1
    /\ api_departures \in SchedulerDepartureResponses
    /\ api_messages \in MessageResponses

NextRefresh ==
    \/ DepRefreshStart
    \/ DepRefreshFinish
    \/ MsgRefreshStart
    \/ MsgRefreshFinish
    \/ \E resp \in SchedulerDepartureResponses : ApiDeparturesChange(resp)
    \/ \E resp \in MessageResponses : ApiMessagesChange(resp)

SpecRefresh == InitRefresh /\ [][NextRefresh]_vars

\* sensor.py:122 and 130: each coordinator is given an update_interval, so its
\* timer fires again after every refresh, and a fetch that was begun returns
\* or raises
RetryDepartureResponses ==
    { r \in HttpFailures : r.kind = "client_error" }
    \cup { HttpOk(<< BaseRaw >>), HttpOk(<< Without(BaseRaw, {"label"}) >>) }

RetryMessageResponses ==
    { r \in HttpFailures : r.kind = "timeout" } \cup { HttpOk(<< BaseRawMessage >>) }

InitRetry ==
    /\ Setup
    /\ selected_lines = {"U3"}
    /\ selected_directions = {}
    /\ departure_count = 1
    /\ api_departures \in RetryDepartureResponses
    /\ api_messages \in RetryMessageResponses

NextRetry ==
    \/ DepRefreshStart
    \/ DepRefreshFinish
    \/ MsgRefreshStart
    \/ MsgRefreshFinish
    \/ \E resp \in RetryDepartureResponses : ApiDeparturesChange(resp)
    \/ \E resp \in RetryMessageResponses : ApiMessagesChange(resp)

SpecRetry ==
    /\ InitRetry
    /\ [][NextRetry]_vars
    /\ WF_vars(DepRefreshStart)
    /\ WF_vars(DepRefreshFinish)
    /\ WF_vars(MsgRefreshStart)
    /\ WF_vars(MsgRefreshFinish)

\* ---- the messages sensor, sensor.py:378-453 ----------------------------
MaxSensorMsgs == 2      \* longest message list the sensor is shown

\* a datetime is the pair <<seconds, milliseconds>> of the instant it denotes,
\* as DivBy1000 gives it; the model's instants lie in January 1970

\* datetime.fromisoformat(s)
FromIsoFormat(s) == s.iso

\* dt.date(), as days since the epoch
DateOf(dt) == dt[1] \div 86400

\* a <= b on datetimes
TimeLeq(a, b) == ~TimeLess(b, a)

Pad2(n) == IF n < 10 THEN "0" \o ToString(n) ELSE ToString(n)

\* dt.strftime('%d.%m.%Y')
StrfDate(dt) == Pad2(DateOf(dt) + 1) \o ".01.1970"

\* dt.strftime('%Y.%m.%d')
StrfDateYmd(dt) == "1970.01." \o Pad2(DateOf(dt) + 1)

\* dt.strftime('%H:%M')
StrfTime(dt) == Pad2((dt[1] % 86400) \div 3600) \o ":" \o Pad2((dt[1] % 3600) \div 60)

\* mutant: a message is only valid after its start
KeepMessageAfterStart(msg, sel_lines, now) ==
    /\ (msg.lines = <<>> \/ \E i \in DOMAIN msg.lines : msg.lines[i] \in sel_lines)
    /\ (msg.valid_from = None \/ TimeLess(FromIsoFormat(msg.valid_from), now))
    /\ (msg.valid_to = None \/ TimeLeq(now, FromIsoFormat(msg.valid_to)))

\* sensor.py:417-419
KeepMessage(msg, sel_lines, now) ==
    /\ (msg.lines = <<>> \/ \E i \in DOMAIN msg.lines : msg.lines[i] \in sel_lines)
    /\ (msg.valid_from = None \/ TimeLeq(FromIsoFormat(msg.valid_from), now))
    /\ (msg.valid_to = None \/ TimeLeq(now, FromIsoFormat(msg.valid_to)))

\* sensor.py:415-420, the list comprehension
RECURSIVE FilterFrom(_, _, _, _)
FilterFrom(msgs, i, sel_lines, now) ==
    IF i > Len(msgs) THEN <<>>
    ELSE (IF KeepMessage(msgs[i], sel_lines, now) THEN << msgs[i] >> ELSE <<>>)
         \o FilterFrom(msgs, i + 1, sel_lines, now)

\* sensor.py:412-420
filter_messages(msgs, sel_lines, now) == FilterFrom(msgs, 1, sel_lines, now)

\* sensor.py:451-453
truncate_title(title) ==
    IF Len(title) <= 100 THEN title ELSE SubSeq(title, 1, 100 - 3) \o "..."

\* the order of str on the line labels of the model
LabelRank(label) == CASE label = "U3" -> 1 [] label = "U6" -> 2 [] OTHER -> 3

RECURSIVE SortedLabels(_)
SortedLabels(labels) ==
    IF labels = {} THEN <<>>
    ELSE LET first == CHOOSE l \in labels : \A m \in labels : LabelRank(l) <= LabelRank(m)
         IN << first >> \o SortedLabels(labels \ {first})

\* sensor.py:432-434
format_lines(lines) ==
    IF lines # <<>> THEN SortedLabels({ lines[i] : i \in DOMAIN lines })
    ELSE << "All lines" >>

\* mutant: a validity without a start is taken for one without an end
FormatValidityFromFirst(valid_from, valid_to) ==
    IF valid_from # None /\ valid_to # None
    THEN LET from_date == FromIsoFormat(valid_from)
             to_date == FromIsoFormat(valid_to)
         IN IF DateOf(from_date) = DateOf(to_date)
            THEN StrfDate(from_date) \o " " \o StrfTime(from_date) \o " - " \o StrfTime(to_date)
            ELSE StrfDate(from_date) \o " " \o StrfTime(from_date) \o " - "
                 \o StrfDate(to_date) \o " " \o StrfTime(to_date)
    ELSE IF valid_to # None
    THEN "From " \o StrfDate(FromIsoFormat(valid_to)) \o " " \o StrfTime(FromIsoFormat(valid_to))
    ELSE IF valid_from # None
    THEN "Until " \o StrfDateYmd(FromIsoFormat(valid_from)) \o " "
         \o StrfTime(FromIsoFormat(valid_from))
    ELSE "No specific time"

\* sensor.py:436-449
format_validity(valid_from, valid_to) ==
    IF valid_from # None /\ valid_to # None
    THEN LET from_date == FromIsoFormat(valid_from)
             to_date == FromIsoFormat(valid_to)
         IN IF DateOf(from_date) = DateOf(to_date)
            THEN StrfDate(from_date) \o " " \o StrfTime(from_date) \o " - " \o StrfTime(to_date)
            ELSE StrfDate(from_date) \o " " \o StrfTime(from_date) \o " - "
                 \o StrfDate(to_date) \o " " \o StrfTime(to_date)
    ELSE IF valid_from # None
    THEN "From " \o StrfDate(FromIsoFormat(valid_from)) \o " "
         \o StrfTime(FromIsoFormat(valid_from))
    ELSE IF valid_to # None
    THEN "Until " \o StrfDateYmd(FromIsoFormat(valid_to)) \o " "
         \o StrfTime(FromIsoFormat(valid_to))
    ELSE "No specific time"

\* sensor.py:422-430
format_message(msg) ==
    [title |-> truncate_title(msg.title),
     lines |-> format_lines(msg.lines),
     validity |-> format_validity(msg.valid_from, msg.valid_to)]

\* the clock readings of the model: before, at and after the validity bounds
NowTimes == { DivBy1000(30000), DivBy1000(60000), DivBy1000(86520000) }

\* raw messages with every combination of bounds and targets
SensorRawMessages ==
    { Without([title |-> "Baustelle", description |-> "Umleitung", type |-> "INCIDENT",
               validFrom |-> 60000, validTo |-> t, lines |-> l], absent) :
        t \in {120000, 86460000},
        l \in { << [label |-> "U3"] >>, << [label |-> "U6"], [label |-> "U3"] >> },
        absent \in SUBSET {"validFrom", "validTo", "lines"} }

SensorMessageResponses == { HttpOk(j) : j \in SeqsUpTo(SensorRawMessages, MaxSensorMsgs) }

\* sensor.py:399-410: the state machine writes the sensor's state, reading
\* native_value and then extra_state_attributes, each with its own clock
\* reading; the sensor exists once the first refresh has given data
MessagesSensorWrite(now_value, now_attrs) ==
    /\ message_data # None
    /\ TimeLeq(now_value, now_attrs)
    /\ LET filtered == filter_messages(message_data.messages, selected_lines, now_attrs)
       IN /\ msg_filtered' = filtered
          /\ msg_now' = now_attrs
          /\ msg_state' =
               [native_value |-> Len(filter_messages(message_data.messages,
                                                     selected_lines, now_value)),
                messages |-> [i \in DOMAIN filtered |-> format_message(filtered[i])]]
    /\ UNCHANGED << config_vars, dep_vars, msg_vars, api_vars, scheduler_exc >>
    /\ UNCHANGED << observed, entry_vars, platform_vars, dep_started_before >>

InitMessages ==
    /\ Setup
    /\ selected_lines \in { {}, {"U3"}, {"U6"} }
    /\ selected_directions = {}
    /\ departure_count = 1
    /\ api_departures = HttpOk(<<>>)
    /\ api_messages \in SensorMessageResponses

NextMessages ==
    \/ MsgRefreshStart
    \/ MsgRefreshFinish
    \/ \E now_value, now_attrs \in NowTimes : MessagesSensorWrite(now_value, now_attrs)

SpecMessages == InitMessages /\ [][NextMessages]_vars

\* ---- the departure sensors read the coordinator, sensor.py:244-376 ------
MaxReaderDeps == 2      \* longest departures list served while sensors read

ReaderRaw ==
    { [label |-> "U3", destination |-> "Moosach", transportType |-> "UBAHN",
       realtimeDepartureTime |-> 1500, plannedDepartureTime |-> 1000],
      [label |-> "U6", destination |-> "Garching", transportType |-> "UBAHN",
       realtimeDepartureTime |-> 1000, plannedDepartureTime |-> 1000] }

ReaderResponses ==
    { r \in HttpFailures : r.kind = "client_error" \/ r.status = 500 }
    \cup { HttpOk(j) : j \in SeqsUpTo(ReaderRaw, MaxReaderDeps) }

\* sensor.py:239-242: on a coordinator update, and whenever the state machine
\* asks, the departure sensors write their state; icon, native_value and
\* extra_state_attributes read coordinator.data["next"], ["all"] and
\* ["grouped"] in one synchronous call
DepartureSensorsWrite ==
    /\ departure_data # None
    /\ observed' = [all |-> departure_data["all"],
                    grouped |-> departure_data["grouped"],
                    next |-> departure_data["next"]]
    /\ UNCHANGED << config_vars, dep_vars, msg_vars, api_vars, scheduler_exc >>
    /\ UNCHANGED << msg_now, msg_filtered, msg_state >>
    /\ UNCHANGED << entry_vars, platform_vars, dep_started_before >>

InitReaders ==
    /\ Setup
    /\ selected_lines \in { {}, {"U3"} }
    /\ selected_directions = {}
    /\ departure_count = 1
    /\ api_departures \in ReaderResponses
    /\ api_messages = HttpOk(<<>>)

NextReaders ==
    \/ DepRefreshStart
    \/ DepRefreshFinish
    \/ \E resp \in ReaderResponses : ApiDeparturesChange(resp)
    \/ DepartureSensorsWrite

SpecReaders == InitReaders /\ [][NextReaders]_vars

\* ---- entities and config entry updates, sensor.py:139-210 -----------------
MaxUpdates == 1         \* config entry updates in one run

\* sensor.py:24, DOMAIN: the integration's domain, the name of its package
Domain == "munich_public_transport"

\* config_entry.entry_id, an id the host generates: letters and digits
entry_id == "01JENTRY"

\* sensor.py:46
station_name == "Marienplatz"

\* s.startswith(prefix)
startswith(s, prefix) == Len(s) >= Len(prefix) /\ SubSeq(s, 1, Len(prefix)) = prefix

\* s.split('_')
RECURSIVE SplitFrom(_, _, _)
SplitFrom(s, i, part) ==
    IF i > Len(s) THEN << part >>
    ELSE IF SubSeq(s, i, i) = "_" THEN << part >> \o SplitFrom(s, i + 1, "")
    ELSE SplitFrom(s, i + 1, part \o SubSeq(s, i, i))

split(s) == SplitFrom(s, 1, "")

\* '_'.join(parts)
RECURSIVE join(_)
join(parts) ==
    IF parts = <<>> THEN ""
    ELSE IF Len(parts) = 1 THEN parts[1]
    ELSE parts[1] \o "_" \o join(Tail(parts))

\* sensor.py:250, 292, 387: the sensors that exist once per station
NextDepartureSensor ==
    [cls |-> "NextDepartureSensor", line |-> "", destination |-> "",
     unique_id |-> entry_id \o "_" \o station_name \o "_next_departure"]

AllDeparturesSensor ==
    [cls |-> "AllDeparturesSensor", line |-> "", destination |-> "",
     unique_id |-> entry_id \o "_" \o station_name \o "_all_departures"]

MessagesSensor ==
    [cls |-> "MessagesSensor", line |-> "", destination |-> "",
     unique_id |-> entry_id \o "_" \o station_name \o "_messages"]

\* sensor.py:334-340
LineSensor(line, destination) ==
    [cls |-> "LineSensor", line |-> line, destination |-> destination,
     unique_id |-> entry_id \o "_" \o station_name \o "_" \o line \o "_" \o destination]

\* sensor.py:145-147: a line sensor for the keys of grouped that pass the test
RECURSIVE LineSensorsFrom(_, _, _, _)
LineSensorsFrom(grouped, i, sel_lines, sel_directions) ==
    IF i > Len(grouped) THEN <<>>
    ELSE LET line == grouped[i].key[1]
             destination == grouped[i].key[2]
         IN (IF line \in sel_lines /\ destination \in sel_directions
             THEN << LineSensor(line, destination) >> ELSE <<>>)
            \o LineSensorsFrom(grouped, i + 1, sel_lines, sel_directions)

\* async_add_entities: the registry takes an entry for each unique id it does
\* not hold yet
async_add_entities(reg, new_entities) ==
    reg \cup { [unique_id |-> new_entities[i].unique_id, config_entry_id |-> entry_id] :
                 i \in DOMAIN new_entities }

\* sensor.py:139-149
SetupEntities ==
    /\ setup_pc = "refreshing"
    /\ dep_pc = "idle" /\ msg_pc = "idle"
    /\ departure_data # None /\ message_data # None
    /\ entities' = << NextDepartureSensor, AllDeparturesSensor, MessagesSensor >>
                    \o LineSensorsFrom(departure_data["grouped"], 1,
                                       selected_lines, selected_directions)
    /\ registry' = async_add_entities(registry, entities')
    /\ setup_pc' = "done"
    /\ UNCHANGED listeners_pending
    /\ UNCHANGED << config_vars, dep_vars, msg_vars, api_vars, scheduler_exc >>
    /\ UNCHANGED << sensor_vars, entry_vars, dep_started_before >>

\* sensor.py:187, 189 and 209: the update listeners in the order registered
UpdateListeners ==
    << "async_update_sensors", "async_update_sensors", "async_remove_outdated_entities" >>

\* the options flow stores a new selection in the config entry and the host
\* calls the entry's update listeners; the closure of async_setup_entry is
\* not entered again
ConfigUpdate(new_lines, new_directions) ==
    /\ setup_pc = "done"
    /\ listeners_pending = <<>>
    /\ updates < MaxUpdates
    /\ << new_lines, new_directions >> # << entry_lines, entry_directions >>
    /\ entry_lines' = new_lines
    /\ entry_directions' = new_directions
    /\ updates' = updates + 1
    /\ listeners_pending' = UpdateListeners
    /\ dep_started_before' = (dep_pc = "fetching")
    /\ UNCHANGED << setup_pc, entities, registry >>
    /\ UNCHANGED << config_vars, dep_vars, msg_vars, api_vars, scheduler_exc, sensor_vars >>

\* sensor.py:164-169 and 200-205: the test that marks a registry entry outdated
Outdated(entity_entry, new_lines, new_directions) ==
    /\ entity_entry.config_entry_id = entry_id
    /\ startswith(entity_entry.unique_id, Domain \o "_" \o station_name \o "_")
    /\ LET parts == split(entity_entry.unique_id)
       IN /\ Len(parts) >= 4
          /\ LET line == parts[3]
                 direction == join(SubSeq(parts, 4, Len(parts)))
             IN line \notin new_lines \/ direction \notin new_directions

\* sensor.py:163-171 and 199-206
RemoveOutdated(reg, new_lines, new_directions) ==
    { e \in reg : ~Outdated(e, new_lines, new_directions) }

\* a selection as the list the entry holds
RECURSIVE ListOf(_)
ListOf(selection) ==
    IF selection = {} THEN <<>>
    ELSE LET first == CHOOSE x \in selection : TRUE
         IN << first >> \o ListOf(selection \ {first})

\* sensor.py:175-182, the two loops
RECURSIVE NewEntitiesFrom(_, _, _, _, _)
NewEntitiesFrom(lines, directions, i, j, current_entities) ==
    IF i > Len(lines) THEN <<>>
    ELSE IF j > Len(directions)
    THEN NewEntitiesFrom(lines, directions, i + 1, 1, current_entities)
    ELSE LET unique_id == Domain \o "_" \o station_name \o "_" \o lines[i]
                          \o "_" \o directions[j]
         IN (IF unique_id \notin current_entities
             THEN << LineSensor(lines[i], directions[j]) >> ELSE <<>>)
            \o NewEntitiesFrom(lines, directions, i, j + 1, current_entities)

\* sensor.py:151-185; the update_interval it also sets is not a state of the model
UpdateSensorsListener ==
    /\ listeners_pending # <<>>
    /\ Head(listeners_pending) = "async_update_sensors"
    /\ LET current_entities == { entities[i].unique_id : i \in DOMAIN entities }
           new_entities == NewEntitiesFrom(ListOf(entry_lines), ListOf(entry_directions),
                                           1, 1, current_entities)
       IN /\ entities' = entities \o new_entities
          /\ registry' = async_add_entities(
                             RemoveOutdated(registry, entry_lines, entry_directions),
                             new_entities)
    /\ listeners_pending' = Tail(listeners_pending)
    /\ UNCHANGED setup_pc
    /\ UNCHANGED << config_vars, dep_vars, msg_vars, api_vars, scheduler_exc >>
    /\ UNCHANGED << sensor_vars, entry_vars, dep_started_before >>

\* sensor.py:191-206
RemoveOutdatedListener ==
    /\ listeners_pending # <<>>
    /\ Head(listeners_pending) = "async_remove_outdated_entities"
    /\ registry' = RemoveOutdated(registry, entry_lines, entry_directions)
    /\ listeners_pending' = Tail(listeners_pending)
    /\ UNCHANGED << setup_pc, entities >>
    /\ UNCHANGED << config_vars, dep_vars, msg_vars, api_vars, scheduler_exc >>
    /\ UNCHANGED << sensor_vars, entry_vars, dep_started_before >>

\* what the server holds while the entry is set up and updated
EntityDepartures ==
    << [label |-> "U3", destination |-> "Moosach", transportType |-> "UBAHN",
        realtimeDepartureTime |-> 1500, plannedDepartureTime |-> 1000],
       [label |-> "U6", destination |-> "Moosach", transportType |-> "UBAHN",
        realtimeDepartureTime |-> 1000, plannedDepartureTime |-> 1000] >>

EntityMessages ==
    << [title |-> "Baustelle", description |-> "Umleitung", type |-> "INCIDENT",
        lines |-> << [label |-> "U3"] >>] >>

InitEntities ==
    /\ Setup
    /\ selected_lines \in { {}, {"U3"}, Lines }
    /\ selected_directions \in { {}, {"Moosach"} }
    /\ departure_count = 1
    /\ api_departures \in { HttpOk(EntityDepartures), HttpOk(SubSeq(EntityDepartures, 1, 1)) }
    /\ api_messages = HttpOk(EntityMessages)

NextEntities ==
    \/ DepRefreshStart
    \/ DepRefreshFinish
    \/ MsgRefreshStart
    \/ MsgRefreshFinish
    \/ SetupEntities
    \/ \E new_lines \in LineSelections, new_directions \in DirectionSelections :
          ConfigUpdate(new_lines, new_directions)
    \/ UpdateSensorsListener
    \/ RemoveOutdatedListener
    \/ MessagesSensorWrite(DivBy1000(60000), DivBy1000(60000))

SpecEntities == InitEntities /\ [][NextEntities]_vars

\* ---- properties ------------------------------------------------------------
\* a departures refresh has published a snapshot
Published == dep_pc = "idle" /\ departures # None /\ departure_data # None

\* the list the snapshot was built from (empty when the fetch raised)
Fetched == IF departures # None /\ departures.exc = "none" THEN departures.value ELSE <<>>

\* the filter of the specification, on the i-th fetched departure
Selected(i) ==
    /\ (selected_lines = {} \/ Fetched[i].line \in selected_lines)
    /\ (selected_directions = {} \/ Fetched[i].destination \in selected_directions)

PairOf(i) == << Fetched[i].line, Fetched[i].destination >>

\* the fetched departures that belong to the group of a key
Members(key) == { i \in DOMAIN Fetched : Selected(i) /\ PairOf(i) = key }

Millis(t) == t[1] * 1000 + t[2]

Realtime(dep) == Millis(dep.realtime_departure)

Range(seq) == { seq[i] : i \in DOMAIN seq }

\* C1: a fetched departure is put into grouped iff it passes the line and
\* direction selection (an empty selection passes everything), and then under
\* the key (line, destination); the keys of the published grouped are the
\* pairs of the departures that pass, each once.
C1_FilterAndGroup ==
    Published =>
        LET built == GroupFrom(Fetched, 1, selected_lines, selected_directions, <<>>)
            grouped == departure_data.grouped
        IN /\ \A i \in DOMAIN Fetched :
                \A e \in DOMAIN built :
                    (Fetched[i] \in Range(built[e].deps))
                        <=> (Selected(i) /\ built[e].key = PairOf(i))
           /\ \A i \in DOMAIN Fetched :
                Selected(i) <=> (\E e \in DOMAIN built : Fetched[i] \in Range(built[e].deps))
           /\ Keys(grouped) = { PairOf(i) : i \in { j \in DOMAIN Fetched : Selected(j) } }
           /\ Cardinality(Keys(grouped)) = Len(grouped)
           /\ (selected_lines = {} /\ selected_directions = {}
                 => Keys(grouped) = { PairOf(i) : i \in DOMAIN Fetched })

\* a snapshot built from a list in which the selection keeps one departure
\* and rejects another
C1_Witness ==
    /\ Published
    /\ \E i, j \in DOMAIN Fetched : Selected(i) /\ ~Selected(j)
    /\ departure_data.grouped # <<>>

\* C2: every group of the published snapshot holds at most departure_count
\* departures.
C2_GroupLimit ==
    Published =>
        \A e \in DOMAIN departure_data.grouped :
            Len(departure_data.grouped[e].deps) <= departure_count

\* a group with more members than departure_count was cut
C2_Witness ==
    /\ Published
    /\ \E e \in DOMAIN departure_data.grouped :
          Cardinality(Members(departure_data.grouped[e].key)) > departure_count

\* C3: each group is the first departure_count elements of the stable
\* ascending sort by realtime_departure of its members: ascending, equal
\* times in input order, and nothing dropped is earlier than anything kept.
C3_GroupSortedStable ==
    Published =>
        \A e \in DOMAIN departure_data.grouped :
            LET deps == departure_data.grouped[e].deps
                members == Members(departure_data.grouped[e].key)
                kept == { deps[j].pos : j \in DOMAIN deps }
            IN /\ Len(deps) = Min(departure_count, Cardinality(members))
               /\ Cardinality(kept) = Len(deps)
               /\ kept \subseteq members
               /\ \A j \in DOMAIN deps : deps[j] = Fetched[deps[j].pos]
               /\ \A j, k \in DOMAIN deps :
                     j < k => \/ Realtime(deps[j]) < Realtime(deps[k])
                              \/ /\ Realtime(deps[j]) = Realtime(deps[k])
                                 /\ deps[j].pos < deps[k].pos
               /\ \A i \in members \ kept : \A j \in kept :
                     \/ Realtime(Fetched[j]) < Realtime(Fetched[i])
                     \/ /\ Realtime(Fetched[j]) = Realtime(Fetched[i])
                        /\ j < i

\* a group whose members arrived out of order, with two equal times, and
\* that lost a member to the limit
C3_Witness ==
    /\ Published
    /\ \E e \in DOMAIN departure_data.grouped :
          LET members == Members(departure_data.grouped[e].key)
          IN /\ Cardinality(members) > departure_count
             /\ \E i, j \in members : i < j /\ Realtime(Fetched[j]) < Realtime(Fetched[i])
             /\ \E i, j \in members : i < j /\ Realtime(Fetched[j]) = Realtime(Fetched[i])

\* C4: the all list of the published snapshot is sorted non-decreasing by
\* realtime_departure.
C4_AllSorted ==
    Published =>
        \A j, k \in DOMAIN departure_data.all :
            j < k => Realtime(departure_data.all[j]) <= Realtime(departure_data.all[k])

\* the groups, put one behind the other, were not in ascending order
C4_Witness ==
    /\ Published
    /\ Len(departure_data.grouped) >= 2
    /\ \E e, f \in DOMAIN departure_data.grouped :
          /\ e < f
          /\ \E j \in DOMAIN departure_data.grouped[e].deps :
               \E k \in DOMAIN departure_data.grouped[f].deps :
                  Realtime(departure_data.grouped[f].deps[k])
                      < Realtime(departure_data.grouped[e].deps[j])

\* the first fetched departure of a group: where its key enters the dict
FirstOf(key) == CHOOSE i \in Members(key) : \A m \in Members(key) : i <= m

\* C5 as stated: departures of all with equal realtime_departure are in the
\* order of the input list, whatever their groups.
C5_TiesInInputOrder ==
    Published =>
        \A j, k \in DOMAIN departure_data.all :
            (j < k /\ Realtime(departure_data.all[j]) = Realtime(departure_data.all[k]))
                => departure_data.all[j].pos < departure_data.all[k].pos

\* C5, amended: departures of all with equal realtime_departure are in the
\* order of the concatenated groups: within one group in input order, and
\* across groups the group whose key occurs first in the input comes first.
C5_TiesInGroupOrder ==
    Published =>
        \A j, k \in DOMAIN departure_data.all :
            (j < k /\ Realtime(departure_data.all[j]) = Realtime(departure_data.all[k]))
                => LET dj == departure_data.all[j]
                       dk == departure_data.all[k]
                       fj == FirstOf(<< dj.line, dj.destination >>)
                       fk == FirstOf(<< dk.line, dk.destination >>)
                   IN fj < fk \/ (fj = fk /\ dj.pos < dk.pos)

\* two departures of different groups with equal times stand in all against
\* their input order
C5_Witness ==
    /\ Published
    /\ \E j, k \in DOMAIN departure_data.all :
          /\ j < k
          /\ Realtime(departure_data.all[j]) = Realtime(departure_data.all[k])
          /\ departure_data.all[j].pos > departure_data.all[k].pos

RECURSIVE TotalLength(_, _)
TotalLength(grouped, i) ==
    IF i > Len(grouped) THEN 0 ELSE Len(grouped[i].deps) + TotalLength(grouped, i + 1)

\* C6: all holds exactly the departures of the limited groups, each once:
\* its length is the sum of the group lengths and no departure that fails the
\* selection is in it.
C6_AllIsTheGroups ==
    Published =>
        LET all == departure_data.all
            grouped == departure_data.grouped
        IN /\ Len(all) = TotalLength(grouped, 1)
           /\ Range(all) = UNION { Range(grouped[e].deps) : e \in DOMAIN grouped }
           /\ Cardinality({ all[j].pos : j \in DOMAIN all }) = Len(all)
           /\ \A j \in DOMAIN all :
                 /\ all[j].pos \in DOMAIN Fetched
                 /\ all[j] = Fetched[all[j].pos]
                 /\ Selected(all[j].pos)

\* two groups, one of them cut by the limit
C6_Witness ==
    /\ Published
    /\ Len(departure_data.grouped) >= 2
    /\ \E e \in DOMAIN departure_data.grouped :
          Cardinality(Members(departure_data.grouped[e].key)) > departure_count

\* C7: next is the first element of all when all is not empty, so nothing in
\* all is earlier than next, and next is None exactly when all is empty.
C7_NextIsFirst ==
    Published =>
        LET all == departure_data.all
        IN /\ all # <<>> =>
                 /\ departure_data.next = all[1]
                 /\ \A j \in DOMAIN all :
                       Realtime(departure_data.next) <= Realtime(all[j])
           /\ (departure_data.next = None) <=> (all = <<>>)

\* a snapshot whose all holds departures at different times
C7_Witness ==
    /\ Published
    /\ Len(departure_data.all) >= 2
    /\ Realtime(departure_data.all[1])
          < Realtime(departure_data.all[Len(departure_data.all)])

\* C8: no refresh raises into the scheduler: a failed departures fetch
\* publishes the empty snapshot and a failed messages fetch an empty list.
C8_RefreshNeverRaises ==
    /\ scheduler_exc = "none"
    /\ (dep_pc = "idle" /\ departures # None /\ departures.exc # "none")
          => departure_data = [all |-> <<>>, grouped |-> <<>>, next |-> None]
    /\ (msg_pc = "idle" /\ messages # None /\ messages.exc # "none")
          => message_data = [messages |-> <<>>]

\* both fetches have failed, one of them on a record and one at the transport
C8_Witness ==
    /\ dep_pc = "idle" /\ departures # None /\ departures.exc = "TypeError"
    /\ departure_data = [all |-> <<>>, grouped |-> <<>>, next |-> None]
    /\ msg_pc = "idle" /\ messages # None /\ messages.exc = "NetworkError"
    /\ message_data = [messages |-> <<>>]

\* the parsed body the latest departures fetch received
RawJson == api_departures.json

HasIdentity(r) == {"label", "destination", "transportType"} \subseteq DOMAIN r
HasBothTimes(r) == {"realtimeDepartureTime", "plannedDepartureTime"} \subseteq DOMAIN r
HasSomeTime(r) == "realtimeDepartureTime" \in DOMAIN r \/ "plannedDepartureTime" \in DOMAIN r

\* C9: records that lack the label, the destination or the transport type
\* are skipped, and every other record of the body is normalized, returned
\* and reaches the snapshot.
C9_MalformedRecordsSkipped ==
    (Published /\ \A i \in DOMAIN RawJson : HasBothTimes(RawJson[i])) =>
        LET good == SelectSeq(RawJson, HasIdentity)
        IN /\ departures.exc = "none"
           /\ Len(Fetched) = Len(good)
           /\ \A i \in DOMAIN Fetched :
                 /\ i \in DOMAIN good
                 /\ Fetched[i].line = good[i]["label"]
                 /\ Fetched[i].destination = good[i]["destination"]
                 /\ Fetched[i].type = good[i]["transportType"]
           /\ (selected_lines = {} /\ selected_directions = {} /\ good # <<>>)
                 => departure_data.all # <<>>

\* C10: a record without realtimeDepartureTime gets its planned time as
\* realtime_departure, one without plannedDepartureTime its realtime time as
\* planned_departure, one with neither is skipped; fetch_departures does not
\* raise for a missing timestamp.
C10_TimestampFallback ==
    (Published /\ \A i \in DOMAIN RawJson : HasIdentity(RawJson[i])) =>
        LET timed == SelectSeq(RawJson, HasSomeTime)
        IN /\ departures.exc = "none"
           /\ Len(Fetched) = Len(timed)
           /\ \A i \in DOMAIN Fetched :
                 /\ i \in DOMAIN timed
                 /\ Millis(Fetched[i].realtime_departure) =
                       IF "realtimeDepartureTime" \in DOMAIN timed[i]
                       THEN timed[i]["realtimeDepartureTime"]
                       ELSE timed[i]["plannedDepartureTime"]
                 /\ Millis(Fetched[i].planned_departure) =
                       IF "plannedDepartureTime" \in DOMAIN timed[i]
                       THEN timed[i]["plannedDepartureTime"]
                       ELSE timed[i]["realtimeDepartureTime"]

\* C11: every failure of fetch_departures is a NetworkError or an APIError:
\* a transport failure or a timeout gives NetworkError, a status other than
\* 200 or a body that does not parse gives APIError, and nothing else escapes.
C11_OnlyApiErrorsEscape ==
    (dep_pc = "idle" /\ departures # None) =>
        /\ departures.exc \in {"none", "NetworkError", "APIError"}
        /\ api_departures.kind \in {"client_error", "timeout"}
              => departures.exc = "NetworkError"
        /\ (api_departures.kind = "response"
              /\ (api_departures.status # 200 \/ ~api_departures.parseable))
              => departures.exc = "APIError"

\* the sensor has reported the messages the coordinator holds
MessagesReported == message_data # None /\ msg_state # None

\* the instant of a validity bound, in milliseconds
BoundMillis(bound) == bound.iso[1] * 1000 + bound.iso[2]

\* the relevance test of the specification on one message
Relevant(m) ==
    /\ (m.lines = <<>> \/ { m.lines[i] : i \in DOMAIN m.lines } \cap selected_lines # {})
    /\ (m.valid_from = None \/ BoundMillis(m.valid_from) <= Millis(msg_now))
    /\ (m.valid_to = None \/ BoundMillis(m.valid_to) >= Millis(msg_now))

\* C12: _filter_messages returns, in input order, exactly the messages whose
\* lines are empty or meet the selected lines and whose validity window
\* holds now; so nothing is returned when now is before every valid_from or
\* after every valid_to, and a message for U3 alone is kept for the selection
\* {U3} and dropped for {U6}.
C12_FilterMessages ==
    MessagesReported =>
        LET input == message_data.messages
            kept == { i \in DOMAIN input : Relevant(input[i]) }
        IN /\ Len(msg_filtered) = Cardinality(kept)
           /\ \A j \in DOMAIN msg_filtered :
                 LET i == CHOOSE i \in kept : Cardinality({ h \in kept : h <= i }) = j
                 IN msg_filtered[j] = input[i]
           /\ (input # <<>> /\ \A i \in DOMAIN input :
                   input[i].valid_from # None
                   /\ Millis(msg_now) < BoundMillis(input[i].valid_from))
                 => msg_filtered = <<>>
           /\ (input # <<>> /\ \A i \in DOMAIN input :
                   input[i].valid_to # None
                   /\ Millis(msg_now) > BoundMillis(input[i].valid_to))
                 => msg_filtered = <<>>
           /\ \A i \in DOMAIN input :
                 (input[i].lines = << "U3" >>
                    /\ input[i].valid_from # None /\ input[i].valid_to # None
                    /\ BoundMillis(input[i].valid_from) <= Millis(msg_now)
                    /\ Millis(msg_now) <= BoundMillis(input[i].valid_to))
                 => /\ selected_lines = {"U3"} => input[i] \in Range(msg_filtered)
                    /\ selected_lines = {"U6"} => input[i] \notin Range(msg_filtered)

\* of two different messages the first is dropped and the second kept, read
\* at the very instant the second becomes valid
C12_Witness ==
    /\ MessagesReported
    /\ Len(message_data.messages) = 2
    /\ ~Relevant(message_data.messages[1])
    /\ Relevant(message_data.messages[2])
    /\ message_data.messages[2].valid_from # None
    /\ BoundMillis(message_data.messages[2].valid_from) = Millis(msg_now)
    /\ msg_filtered = << message_data.messages[2] >>

\* C16: _format_validity takes its form from the bounds present: both on one
\* calendar day give one date and a time range, both on different days two
\* full date-times, a start alone a text beginning with "From ", an end alone
\* one beginning with "Until ", and none the text "No specific time".
C16_ValidityForms ==
    MessagesReported =>
        \A j \in DOMAIN msg_filtered :
            LET m == msg_filtered[j]
                text == msg_state.messages[j].validity
                day(bound) == bound.iso[1] \div 86400
            IN /\ (m.valid_from # None /\ m.valid_to # None
                     /\ day(m.valid_from) = day(m.valid_to))
                  => /\ Len(text) = 24
                     /\ SubSeq(text, 1, 11) = StrfDate(m.valid_from.iso) \o " "
                     /\ SubSeq(text, 17, 19) = " - "
               /\ (m.valid_from # None /\ m.valid_to # None
                     /\ day(m.valid_from) # day(m.valid_to))
                  => /\ Len(text) = 35
                     /\ SubSeq(text, 1, 11) = StrfDate(m.valid_from.iso) \o " "
                     /\ SubSeq(text, 17, 19) = " - "
                     /\ SubSeq(text, 20, 30) = StrfDate(m.valid_to.iso) \o " "
               /\ (m.valid_from # None /\ m.valid_to = None)
                  => SubSeq(text, 1, 5) = "From "
               /\ (m.valid_from = None /\ m.valid_to # None)
                  => SubSeq(text, 1, 6) = "Until "
               /\ (m.valid_from = None /\ m.valid_to = None)
                  => text = "No specific time"

\* the sensor reports a message with a start alone and one with an end alone
C16_Witness ==
    /\ MessagesReported
    /\ Len(msg_filtered) = 2
    /\ msg_filtered[1].valid_from # None /\ msg_filtered[1].valid_to = None
    /\ msg_filtered[2].valid_from = None /\ msg_filtered[2].valid_to # None

\* C13: whatever the departure sensors read is one whole snapshot: next is the
\* head of all or None, all holds exactly the departures of the groups in
\* realtime order, and the whole equals the snapshot built from one answer of
\* the server, or the empty snapshot.
C13_ReadersSeeOneSnapshot ==
    observed # None =>
        /\ observed.next = (IF observed.all # <<>> THEN observed.all[1] ELSE None)
        /\ Len(observed.all) = TotalLength(observed.grouped, 1)
        /\ \A g \in DOMAIN observed.grouped :
              Range(observed.grouped[g].deps) \subseteq Range(observed.all)
        /\ \A i, j \in DOMAIN observed.all :
              i < j => Realtime(observed.all[i]) <= Realtime(observed.all[j])
        /\ \/ observed = [all |-> <<>>, grouped |-> <<>>, next |-> None]
           \/ \E resp \in ReaderResponses :
                 /\ fetch_departures(resp).exc = "none"
                 /\ observed = BuildSnapshot(fetch_departures(resp).value, selected_lines,
                                             selected_directions, departure_count)

\* the sensors hold the snapshot of two groups while a later refresh, whose
\* fetch will give one departure only, awaits the network
C13_Witness ==
    /\ observed # None
    /\ Len(observed.grouped) = 2
    /\ dep_pc = "fetching"
    /\ departure_data = observed
    /\ api_departures.kind = "response" /\ Len(api_departures.json) = 1

\* C14: a step of the departures refresh leaves message_coordinator.data as
\* it was and a step of the messages refresh leaves departure_coordinator.data
\* as it was, whether the fetch succeeded or failed and however the two
\* refreshes interleave.
C14_RefreshesIndependent ==
    [][ /\ dep_pc' # dep_pc => (message_data' = message_data /\ messages' = messages)
        /\ msg_pc' # msg_pc => (departure_data' = departure_data
                                  /\ departures' = departures) ]_vars

\* a failed messages refresh has ended while a departures refresh is
\* awaiting its fetch, and the departures published earlier are not empty
C14_Witness ==
    /\ dep_pc = "fetching"
    /\ msg_pc = "idle"
    /\ messages # None /\ messages.exc # "none"
    /\ message_data = [messages |-> <<>>]
    /\ departure_data # None /\ departure_data.all # <<>>

\* the latest departures refresh failed and published the empty snapshot
DepFailed ==
    /\ dep_pc = "idle"
    /\ departures # None /\ departures.exc # "none"
    /\ departure_data = [all |-> <<>>, grouped |-> <<>>, next |-> None]

\* the latest messages refresh failed and published the empty list
MsgFailed ==
    /\ msg_pc = "idle"
    /\ messages # None /\ messages.exc # "none"
    /\ message_data = [messages |-> <<>>]

\* a fetch of what the server holds now would succeed
DepServedOk == fetch_departures(api_departures).exc = "none"
MsgServedOk == fetch_messages(api_messages).exc = "none"

\* C15: a failed refresh is not sticky. After a refresh that failed and
\* published the empty snapshot the refresh is invoked again; a refresh whose
\* fetch succeeds publishes the snapshot built from that fetch; and if from
\* some time on the fetches succeed, the published data is from then on that
\* of a successful fetch. The same holds for the messages.
C15_FailureNotSticky ==
    /\ [](DepFailed => <>(dep_pc = "fetching"))
    /\ [](MsgFailed => <>(msg_pc = "fetching"))
    /\ [][ (dep_pc = "fetching" /\ dep_pc' = "idle" /\ DepServedOk)
             => departure_data' =
                  BuildSnapshot(fetch_departures(api_departures).value, selected_lines,
                                selected_directions, departure_count) ]_vars
    /\ [][ (msg_pc = "fetching" /\ msg_pc' = "idle" /\ MsgServedOk)
             => message_data' = [messages |-> fetch_messages(api_messages).value] ]_vars
    /\ (<>[]DepServedOk)
          => <>[](/\ departures # None /\ departures.exc = "none"
                  /\ departure_data =
                       BuildSnapshot(departures.value, selected_lines,
                                     selected_directions, departure_count))
    /\ (<>[]MsgServedOk)
          => <>[](/\ messages # None /\ messages.exc = "none"
                  /\ message_data = [messages |-> messages.value])

\* the empty snapshot of a failed refresh is published, the server has since
\* recovered and serves a departure, and the retry awaits its fetch
C15_Witness ==
    /\ departures # None /\ departures.exc # "none"
    /\ departure_data = [all |-> <<>>, grouped |-> <<>>, next |-> None]
    /\ dep_pc = "fetching"
    /\ DepServedOk /\ api_departures.json # <<>>

\* the line sensors the closure's list holds for one pair
LineSensorsOf(line, destination) ==
    { i \in DOMAIN entities :
        /\ entities[i].cls = "LineSensor"
        /\ entities[i].line = line
        /\ entities[i].destination = destination }

\* C17: whatever updates the config entry has gone through, the integration
\* holds at most one LineSensor for each pair of line and direction.
C17_OneLineSensorPerPair ==
    \A line \in Lines, destination \in Destinations :
        Cardinality(LineSensorsOf(line, destination)) <= 1

\* C18: once the update listeners have run for an update to a selection of
\* some lines and some directions, the registry holds no line sensor of this
\* entry whose line or direction is outside the new selection.
C18_OutdatedRemoved ==
    (updates > 0 /\ listeners_pending = <<>>
       /\ entry_lines # {} /\ entry_directions # {}) =>
        \A e \in registry : \A line \in Lines, destination \in Destinations :
            (e.config_entry_id = entry_id
               /\ e.unique_id = entry_id \o "_" \o station_name \o "_" \o line
                                 \o "_" \o destination)
            => (line \in entry_lines /\ destination \in entry_directions)

\* the test of the selection the config entry holds now, on a departure
PassesEntrySelection(dep) ==
    /\ (entry_lines = {} \/ dep.line \in entry_lines)
    /\ (entry_directions = {} \/ dep.destination \in entry_directions)

\* C19: a departures refresh that begins after a config entry update
\* publishes a snapshot filtered by the entry's new selection, and a state the
\* messages sensor writes after the update holds the messages that are
\* relevant to the entry's new selected lines.
C19_RefreshUsesNewSelection ==
    [][ /\ (dep_pc = "fetching" /\ dep_pc' = "idle" /\ updates > 0
              /\ ~dep_started_before /\ departures'.exc = "none")
           => Keys(departure_data'.grouped) =
                { << departures'.value[i].line, departures'.value[i].destination >> :
                    i \in { h \in DOMAIN departures'.value :
                              PassesEntrySelection(departures'.value[h]) } }
        /\ (updates > 0 /\ msg_state' # msg_state)
           => \A i \in DOMAIN message_data.messages :
                 LET m == message_data.messages[i]
                 IN (m \in Range(msg_filtered'))
                      <=> (m.lines = <<>>
                             \/ Range(m.lines) \cap entry_lines # {}) ]_vars

\* C20: after setup every key of the snapshot's grouped mapping has one line
\* sensor, also when the selected lines or the selected directions are empty.
C20_LineSensorPerGroup ==
    (setup_pc = "done" /\ updates = 0) =>
        \A key \in Keys(departure_data.grouped) :
            Cardinality(LineSensorsOf(key[1], key[2])) = 1

====
